---- MODULE Spec2Model ----
(***************************************************************************)
(* The LLM gateway of src/utils/call_llm.py: the single-turn entry point   *)
(* call_llm (with its wrappers call_openai and call_anthropic) and the     *)
(* multi-turn entry point call_llm_with_history.                           *)
(*                                                                         *)
(* Python values are tagged records (NoneV, StrV, IntV, FloatV) so that    *)
(* None, "" and 0 stay distinct and truthiness is computed as Python does. *)
(* Text is a TLA+ string (concatenation is \o); a provider name is a       *)
(* sequence of characters, so that str.lower() is computed character by    *)
(* character.  The caller's message list is a sequence of dict objects;    *)
(* anthropic_messages holds references (indices) into it, because          *)
(* list.append stores the caller's dict itself, not a copy.                *)
(***************************************************************************)
EXTENDS Integers, Sequences, FiniteSets, TLC

\* ---------------------------------------------------------------- bounds
\* longest message list the caller builds
MaxMsgs == 3
\* number of gateway calls in one run of the process
MaxCalls == 2

\* ------------------------------------------------------- program constants
\* max_tokens sent to Anthropic when the caller gives none
AnthropicMaxTokens == 4096

\* ------------------------------------------------------------ Python values
NoneV == [t |-> "none"]
StrV(s) == [t |-> "str", v |-> s]
IntV(n) == [t |-> "int", v |-> n]
\* a float, held as its repr: "0.7", "0.0", "-0.0"
FloatV(s) == [t |-> "float", v |-> s]

\* bool(v): None, "", 0, 0.0 and -0.0 are falsy
Truthy(v) ==
  CASE v.t = "none" -> FALSE
    [] v.t = "str" -> v.v # ""
    [] v.t = "int" -> v.v # 0
    [] v.t = "float" -> v.v # "0.0" /\ v.v # "-0.0"
    [] OTHER -> TRUE

\* a or b
PyOr(a, b) == IF Truthy(a) THEN a ELSE b

\* kwargs.get(key, default); also the binding of a defaulted parameter
KwGet(kw, key, default) == IF key \in DOMAIN kw THEN kw[key] ELSE default

\* ------------------------------------------------------------- str.lower()
UpperAlpha ==
  <<"A","B","C","D","E","F","G","H","I","J","K","L","M",
    "N","O","P","Q","R","S","T","U","V","W","X","Y","Z">>
LowerAlpha ==
  <<"a","b","c","d","e","f","g","h","i","j","k","l","m",
    "n","o","p","q","r","s","t","u","v","w","x","y","z">>

LowerChar(c) ==
  IF \E i \in 1..Len(UpperAlpha) : UpperAlpha[i] = c
  THEN LowerAlpha[CHOOSE i \in 1..Len(UpperAlpha) : UpperAlpha[i] = c]
  ELSE c

\* mutant: the provider compared as written, without .lower()
LowerOmitted(s) == s

Lower(s) == [i \in 1..Len(s) |-> LowerChar(s[i])]

OPENAI == <<"o","p","e","n","a","i">>
ANTHROPIC == <<"a","n","t","h","r","o","p","i","c">>

IsOpenAI(provider) == Lower(provider) = OPENAI
IsAnthropic(provider) == Lower(provider) = ANTHROPIC

\* ------------------------------------------------------------------ inputs
Providers ==
  { OPENAI, <<"O","p","e","n","A","I">>,
    ANTHROPIC, <<"A","N","T","H","R","O","P","I","C">>,
    <<"g","e","m","i","n","i">>, <<>> }

PLACEHOLDER == "YOUR_API_KEY_HERE"

EnvNames == {"OPENAI_API_KEY", "ANTHROPIC_API_KEY"}
Envs ==
  { [OPENAI_API_KEY |-> o, ANTHROPIC_API_KEY |-> a] :
      o \in {NoneV, StrV(""), StrV(PLACEHOLDER), StrV("sk-openai")},
      a \in {NoneV, StrV(""), StrV(PLACEHOLDER), StrV("sk-ant")} }

Roles == {"system", "user", "assistant"}
RoleTag(r) == CASE r = "system" -> "S" [] r = "user" -> "U" [] OTHER -> "A"
Digit == <<"1","2","3","4","5","6","7","8","9">>

\* message lists: any roles in any order, the content names role and position
MessageLists ==
  UNION { { [i \in 1..n |-> [role |-> rs[i], content |-> RoleTag(rs[i]) \o Digit[i]]] :
              rs \in [1..n -> Roles] } : n \in 0..MaxMsgs }

Absent == [t |-> "absent"]
KwargsOf(m, x, tp) ==
  LET all == [model |-> m, max_tokens |-> x, temperature |-> tp]
  IN  [k \in {k \in DOMAIN all : all[k] # Absent} |-> all[k]]
\* the keyword arguments a caller passes: none, each one alone with every
\* value it can take (None, "", 0 and 0.0 included), and all three together
Kwargs ==
  { KwargsOf(m, Absent, Absent) : m \in {Absent, NoneV, StrV(""), StrV("my-model")} }
  \cup { KwargsOf(Absent, x, Absent) : x \in {NoneV, IntV(0), FloatV("0.0"), IntV(256)} }
  \cup { KwargsOf(Absent, Absent, FloatV("0.2")),
         KwargsOf(StrV("my-model"), IntV(256), FloatV("0.2")) }

Prompts == {"hello"}

\* what the vendor backend does with a request
Replies ==
  { [kind |-> "text", text |-> "T"],
    [kind |-> "fault", exc |-> [type |-> "APIConnectionError", text |-> "connection reset", names |-> {}]] }


\* ------------------------------------------------------------------- state
VARIABLES
  env,       \* os.environ as os.getenv sees it: name -> value, NoneV when unset
  messages,  \* the caller's message list (the dict objects the caller holds)
  call,      \* the last call made: entry point, arguments, the list as passed,
             \* and what the backend would do with a request (answer or fail)
  run,       \* what that call did: outcome, result, error, getenv calls,
             \* clients built, requests sent to a backend, log lines
  pc,        \* "idle": the caller is about to call; "done": a call has ended
  nCalls     \* calls made so far

vars == <<env, messages, call, run, pc, nCalls>>

\* --------------------------------------------------------------- exceptions
NoExc == [type |-> "none", text |-> "", names |-> {}]
\* ValueError(text); names are the provider names interpolated into the text
ValueError(text, names) == [type |-> "ValueError", text |-> text, names |-> names]

\* how a try body ends: by raise or by return, with the calls it made
Raise(e, getenvs, clients, requests) ==
  [outcome |-> "raised", result |-> NoneV, raised |-> e,
   getenvs |-> getenvs, clients |-> clients, requests |-> requests, log |-> <<>>]
Return(v, getenvs, clients, requests) ==
  [outcome |-> "returned", result |-> v, raised |-> NoExc,
   getenvs |-> getenvs, clients |-> clients, requests |-> requests, log |-> <<>>]

\* client.chat.completions.create / client.messages.create, then the
\* extraction of the first completion's text: one request, answered or failed
Create(request, reply, getenvs, clients) ==
  IF reply.kind = "fault"
  THEN Raise(reply.exc, getenvs, clients, <<request>>)
  ELSE Return(StrV(reply.text), getenvs, clients, <<request>>)

\* OpenAI(api_key=...) / Anthropic(api_key=...)
Client(kind, api_key) == [kind |-> kind, api_key |-> api_key]

\* -------------------------------------------------------- single-turn call
\* "if not api_key or api_key == 'YOUR_API_KEY_HERE'"
OpenAIKeyRejectedSingle(api_key) == ~Truthy(api_key) \/ api_key = StrV(PLACEHOLDER)
\* "if not api_key"
KeyRejected(api_key) == ~Truthy(api_key)

\* mutant: the model passed on as bound, with no default
OpenAIModelSinglePassed(model) == model

\* model = model or "gpt-4o"
OpenAIModelSingle(model) == PyOr(model, StrV("gpt-4o"))
\* model = model or "claude-3-opus-20240229"
AnthropicModelSingle(model) == PyOr(model, StrV("claude-3-opus-20240229"))
\* max_tokens=max_tokens
OpenAIMaxTokensSingle(max_tokens) == max_tokens
\* max_tokens=max_tokens or 4096
AnthropicMaxTokensSingle(max_tokens) == PyOr(max_tokens, IntV(AnthropicMaxTokens))

OpenAISingle(e, prompt, model, temperature, max_tokens, reply) ==
  LET api_key == e["OPENAI_API_KEY"]
      getenvs == <<"OPENAI_API_KEY">>
  IN  IF OpenAIKeyRejectedSingle(api_key)
      THEN Raise(ValueError("OPENAI_API_KEY not found in environment variables", {}),
                 getenvs, <<>>, <<>>)
      ELSE LET client == Client("OpenAI", api_key)
           IN  Create([backend |-> "openai", api_key |-> client.api_key,
                       model |-> OpenAIModelSingle(model),
                       messages |-> <<[role |-> "user", content |-> prompt]>>,
                       temperature |-> temperature,
                       max_tokens |-> OpenAIMaxTokensSingle(max_tokens)],
                      reply, getenvs, <<client>>)

AnthropicSingle(e, prompt, model, temperature, max_tokens, reply) ==
  LET api_key == e["ANTHROPIC_API_KEY"]
      getenvs == <<"ANTHROPIC_API_KEY">>
  IN  IF KeyRejected(api_key)
      THEN Raise(ValueError("ANTHROPIC_API_KEY not found in environment variables", {}),
                 getenvs, <<>>, <<>>)
      ELSE LET client == Client("Anthropic", api_key)
           IN  Create([backend |-> "anthropic", api_key |-> client.api_key,
                       model |-> AnthropicModelSingle(model),
                       messages |-> <<[role |-> "user", content |-> prompt]>>,
                       temperature |-> temperature,
                       max_tokens |-> AnthropicMaxTokensSingle(max_tokens)],
                      reply, getenvs, <<client>>)

\* the else branch: raise ValueError(f"Unsupported provider: {provider}")
UnsupportedSingle(provider) ==
  Raise(ValueError("Unsupported provider: {provider}", {provider}), <<>>, <<>>, <<>>)

\* logger.info / logger.error lines of call_llm
LogCalling(provider, prompt) ==
  [level |-> "info", fmt |-> "Calling {provider} LLM with prompt length: {len(prompt)}",
   provider |-> provider, n |-> Len(prompt)]
LogReceived(result) ==
  [level |-> "info", fmt |-> "Received response of length: {len(result)}",
   n |-> Len(result.v)]
LogError(provider, e) ==
  [level |-> "error", fmt |-> "Error calling {provider} LLM: {str(e)}",
   provider |-> provider, exc |-> e]

\* the whole of call_llm: parameter binding, dispatch, logging, re-raise
CallLlmRun(e, prompt, provider, kw, reply) ==
  LET model == KwGet(kw, "model", NoneV)
      temperature == KwGet(kw, "temperature", FloatV("0.7"))
      max_tokens == KwGet(kw, "max_tokens", NoneV)
      body == IF IsOpenAI(provider)
              THEN OpenAISingle(e, prompt, model, temperature, max_tokens, reply)
              ELSE IF IsAnthropic(provider)
              THEN AnthropicSingle(e, prompt, model, temperature, max_tokens, reply)
              ELSE UnsupportedSingle(provider)
  IN  [body EXCEPT !.log =
         <<LogCalling(provider, prompt)>> \o
         (IF body.outcome = "raised"
          THEN <<LogError(provider, body.raised)>>
          ELSE <<LogReceived(body.result)>>)]

\* --------------------------------------------------------- multi-turn call
\* model = kwargs.get("model", "gpt-4o")
OpenAIModelHistory(kw) == KwGet(kw, "model", StrV("gpt-4o"))
\* model = kwargs.get("model", "claude-3-opus-20240229")
AnthropicModelHistory(kw) == KwGet(kw, "model", StrV("claude-3-opus-20240229"))
\* max_tokens=kwargs.get("max_tokens")
OpenAIMaxTokensHistory(kw) == KwGet(kw, "max_tokens", NoneV)
\* max_tokens=kwargs.get("max_tokens", 4096)
AnthropicMaxTokensHistory(kw) == KwGet(kw, "max_tokens", IntV(AnthropicMaxTokens))
\* temperature=kwargs.get("temperature", 0.7)
TemperatureHistory(kw) == KwGet(kw, "temperature", FloatV("0.7"))

\* the condition under which a system message is folded:
\* "if anthropic_messages and anthropic_messages[0]['role'] == 'user'"
FoldTarget(heap, am) == am # <<>> /\ heap[am[1]].role = "user"

\* anthropic_messages[0]["content"] = msg["content"] + "\n\n" + anthropic_messages[0]["content"]
\* written through the reference: the dict is the caller's own
Fold(heap, am, i) ==
  [heap EXCEPT ![am[1]].content = heap[i].content \o "\n\n" \o @]

\* "for msg in messages": heap is the caller's dicts, am the references
\* appended to anthropic_messages so far, i the position of msg
RECURSIVE anthropic_messages(_, _, _)
anthropic_messages(heap, am, i) ==
  IF i > Len(heap) THEN [heap |-> heap, am |-> am]
  ELSE IF heap[i].role = "system"
       THEN IF FoldTarget(heap, am)
            THEN anthropic_messages(Fold(heap, am, i), am, i + 1)
            ELSE anthropic_messages(heap, am, i + 1)
       ELSE anthropic_messages(heap, Append(am, i), i + 1)

\* the list handed to client.messages.create, as it is serialised
Deref(heap, am) == [k \in 1..Len(am) |-> heap[am[k]]]

\* a multi-turn run and the caller's list as the call leaves it
Left(r, msgs) == [run |-> r, messages |-> msgs]

OpenAIHistory(e, msgs, kw, reply) ==
  LET api_key == e["OPENAI_API_KEY"]
      getenvs == <<"OPENAI_API_KEY">>
  IN  IF KeyRejected(api_key)
      THEN Left(Raise(ValueError("OPENAI_API_KEY not found in environment variables", {}),
                      getenvs, <<>>, <<>>), msgs)
      ELSE LET client == Client("OpenAI", api_key)
           IN  Left(Create([backend |-> "openai", api_key |-> client.api_key,
                            model |-> OpenAIModelHistory(kw),
                            messages |-> msgs,
                            temperature |-> TemperatureHistory(kw),
                            max_tokens |-> OpenAIMaxTokensHistory(kw)],
                           reply, getenvs, <<client>>), msgs)

AnthropicHistory(e, msgs, kw, reply) ==
  LET api_key == e["ANTHROPIC_API_KEY"]
      getenvs == <<"ANTHROPIC_API_KEY">>
  IN  IF KeyRejected(api_key)
      THEN Left(Raise(ValueError("ANTHROPIC_API_KEY not found in environment variables", {}),
                      getenvs, <<>>, <<>>), msgs)
      ELSE LET client == Client("Anthropic", api_key)
               conv == anthropic_messages(msgs, <<>>, 1)
           IN  Left(Create([backend |-> "anthropic", api_key |-> client.api_key,
                            model |-> AnthropicModelHistory(kw),
                            messages |-> Deref(conv.heap, conv.am),
                            temperature |-> TemperatureHistory(kw),
                            max_tokens |-> AnthropicMaxTokensHistory(kw)],
                           reply, getenvs, <<client>>), conv.heap)

\* neither branch taken: the try body ends and the function returns None
FallThroughHistory(msgs) == Left(Return(NoneV, <<>>, <<>>, <<>>), msgs)

\* mutant: "if messages is None", which no list satisfies
NotMessagesIsNone(msgs) == FALSE

\* "not messages": the list is empty
NotMessages(msgs) == Len(msgs) = 0

\* "if not messages: raise ValueError(...)", before the try and the logging
EmptyHistory(msgs) ==
  Left(Raise(ValueError("Messages list cannot be empty", {}), <<>>, <<>>, <<>>), msgs)

LogCallingHistory(provider, msgs) ==
  [level |-> "info", fmt |-> "Calling {provider} with {len(messages)} messages",
   provider |-> provider, n |-> Len(msgs)]
LogErrorHistory(provider, e) ==
  [level |-> "error", fmt |-> "Error calling {provider} with history: {str(e)}",
   provider |-> provider, exc |-> e]

\* the whole of call_llm_with_history: validation, dispatch, logging, re-raise
CallLlmWithHistoryRun(e, msgs, provider, kw, reply) ==
  IF NotMessages(msgs)
  THEN EmptyHistory(msgs)
  ELSE
    LET body == IF IsOpenAI(provider) THEN OpenAIHistory(e, msgs, kw, reply)
                ELSE IF IsAnthropic(provider) THEN AnthropicHistory(e, msgs, kw, reply)
                ELSE FallThroughHistory(msgs)
    IN  [body EXCEPT !.run.log =
           <<LogCallingHistory(provider, msgs)>> \o
           (IF body.run.outcome = "raised"
            THEN <<LogErrorHistory(provider, body.run.raised)>>
            ELSE <<>>)]

\* ------------------------------------------------------------ state machine
NoCall ==
  [entry |-> "none", provider |-> <<>>, kw |-> <<>>, prompt |-> "", messages |-> <<>>,
   reply |-> [kind |-> "none"]]
NoRun == Return(NoneV, <<>>, <<>>, <<>>)

Init ==
  /\ env \in Envs
  /\ messages \in MessageLists
  /\ pc = "idle"
  /\ call = NoCall
  /\ run = NoRun
  /\ nCalls = 0

\* call_llm(prompt, provider=..., **kw)
call_llm(prompt, provider, kw, reply) ==
  /\ pc = "idle"
  /\ nCalls < MaxCalls
  /\ call' = [entry |-> "call_llm", provider |-> provider, kw |-> kw,
              prompt |-> prompt, messages |-> <<>>, reply |-> reply]
  /\ run' = CallLlmRun(env, prompt, provider, kw, reply)
  /\ pc' = "done"
  /\ nCalls' = nCalls + 1
  /\ UNCHANGED <<env, messages>>

\* call_openai(prompt, **kw): return call_llm(prompt, provider="openai", **kw)
call_openai(prompt, kw, reply) == call_llm(prompt, OPENAI, kw, reply)

\* call_anthropic(prompt, **kw): return call_llm(prompt, provider="anthropic", **kw)
call_anthropic(prompt, kw, reply) == call_llm(prompt, ANTHROPIC, kw, reply)

\* call_llm_with_history(messages, provider=..., **kw) on the caller's list
call_llm_with_history(provider, kw, reply) ==
  LET left == CallLlmWithHistoryRun(env, messages, provider, kw, reply)
  IN  /\ pc = "idle"
      /\ nCalls < MaxCalls
      /\ call' = [entry |-> "call_llm_with_history", provider |-> provider, kw |-> kw,
                  prompt |-> "", messages |-> messages, reply |-> reply]
      /\ run' = left.run
      /\ messages' = left.messages
      /\ pc' = "done"
      /\ nCalls' = nCalls + 1
      /\ UNCHANGED env

\* the caller prints the response or the error and goes on to its next call,
\* still holding the same message list
Resume ==
  /\ pc = "done"
  /\ pc' = "idle"
  /\ call' = NoCall
  /\ run' = NoRun
  /\ UNCHANGED <<env, messages, nCalls>>

Next ==
  \/ \E p \in Prompts, pr \in Providers, kw \in Kwargs, r \in Replies :
       call_llm(p, pr, kw, r)
  \/ \E p \in Prompts, kw \in Kwargs, r \in Replies : call_openai(p, kw, r)
  \/ \E p \in Prompts, kw \in Kwargs, r \in Replies : call_anthropic(p, kw, r)
  \/ \E pr \in Providers, kw \in Kwargs, r \in Replies :
       call_llm_with_history(pr, kw, r)
  \/ Resume

Spec == Init /\ [][Next]_vars

\* ==================================================================== claims
\* vocabulary of the claims, stated without the gateway's own operators

\* s is name with some of its letters in upper case
CasingOf(s, name) ==
  /\ Len(s) = Len(name)
  /\ \A i \in 1..Len(name) :
       \/ s[i] = name[i]
       \/ \E k \in 1..Len(LowerAlpha) : LowerAlpha[k] = name[i] /\ UpperAlpha[k] = s[i]

NamesOpenAI == CasingOf(call.provider, OPENAI)
NamesAnthropic == CasingOf(call.provider, ANTHROPIC)

Ended == pc = "done"
Single == call.entry = "call_llm"
History == call.entry = "call_llm_with_history"
\* a call the dispatcher gets to see: any single-turn call, a multi-turn call
\* with a non-empty list
Dispatched == Single \/ (History /\ Len(call.messages) > 0)

ConfigurationError == run.outcome = "raised" /\ run.raised.type = "ValueError"
NoNetwork == run.requests = <<>>
Sent == run.requests[1]
HasKey(kw, key) == key \in DOMAIN kw

\* a credential that is missing, empty or the placeholder
Unusable(key) == key = NoneV \/ key = StrV("") \/ key = StrV(PLACEHOLDER)

\* ------------------------------------------------------------------ C1
\* C1 (as claimed): for a provider name that is no casing of "openai" or
\* "anthropic", the single-turn call and the multi-turn call on a non-empty
\* list both end in a raised configuration error, with no network call.
C1_UnsupportedRaises ==
  (Ended /\ Dispatched /\ ~NamesOpenAI /\ ~NamesAnthropic)
    => (ConfigurationError /\ NoNetwork)

\* ------------------------------------------------------------------ C2
SystemAt(msgs) == {i \in 1..Len(msgs) : msgs[i].role = "system"}
UserAt(msgs) == {i \in 1..Len(msgs) : msgs[i].role = "user"}

\* C2 (as claimed), on lists with one system entry that a user entry
\* follows: the Anthropic multi-turn request holds no system entry, and a
\* user message in it reads system content, "\n\n", that user's content.
C2_SystemThenUserFolded ==
  (Ended /\ History /\ NamesAnthropic /\ ~NoNetwork
     /\ Cardinality(SystemAt(call.messages)) = 1
     /\ \E i \in SystemAt(call.messages), j \in UserAt(call.messages) : i < j)
    => /\ \A k \in 1..Len(Sent.messages) : Sent.messages[k].role # "system"
       /\ \E i \in SystemAt(call.messages), j \in UserAt(call.messages),
             k \in 1..Len(Sent.messages) :
            /\ Sent.messages[k].role = "user"
            /\ Sent.messages[k].content =
                 call.messages[i].content \o "\n\n" \o call.messages[j].content

\* ------------------------------------------------------------------ C3
FirstUser(msgs) == CHOOSE j \in UserAt(msgs) : \A k \in UserAt(msgs) : j <= k

\* the first user message's content once every later system message has
\* been prepended to it, in list order
RECURSIVE PrependedLater(_, _, _)
PrependedLater(msgs, content, i) ==
  IF i > Len(msgs) THEN content
  ELSE IF msgs[i].role = "system"
       THEN PrependedLater(msgs, msgs[i].content \o "\n\n" \o content, i + 1)
       ELSE PrependedLater(msgs, content, i + 1)

\* C3 (as claimed): in the Anthropic multi-turn call every system message
\* with a user message before it is prepended to the first user message,
\* whatever the first non-system message of the list is, and no system
\* message is sent on.
C3_SystemAfterUserFolded ==
  (Ended /\ History /\ NamesAnthropic /\ ~NoNetwork /\ UserAt(call.messages) # {})
    => LET j == FirstUser(call.messages)
       IN  /\ \A k \in 1..Len(Sent.messages) : Sent.messages[k].role # "system"
           /\ \E k \in 1..Len(Sent.messages) :
                /\ Sent.messages[k].role = "user"
                /\ Sent.messages[k].content =
                     PrependedLater(call.messages, call.messages[j].content, j + 1)

\* ------------------------------------------------------------------ C4
\* C4 (as claimed, for the OpenAI provider): in both entry points an OpenAI
\* credential that is missing, empty or the placeholder makes the call raise
\* a configuration error before a client is built or a request is sent.
C4_UnusableOpenAIKeyRaises ==
  (Ended /\ Dispatched /\ NamesOpenAI /\ Unusable(env["OPENAI_API_KEY"]))
    => (ConfigurationError /\ run.clients = <<>> /\ NoNetwork)

\* the same for the Anthropic provider
C4_UnusableAnthropicKeyRaises ==
  (Ended /\ Dispatched /\ NamesAnthropic /\ Unusable(env["ANTHROPIC_API_KEY"]))
    => (ConfigurationError /\ run.clients = <<>> /\ NoNetwork)

\* ------------------------------------------------------------------ C5
\* C5: a multi-turn call with an empty list raises the validation error
\* before any credential lookup, client construction or network call, for
\* every provider name.
C5_EmptyHistoryRejected ==
  (Ended /\ History /\ call.messages = <<>>)
    => /\ ConfigurationError
       /\ run.raised.text = "Messages list cannot be empty"
       /\ run.getenvs = <<>> /\ run.clients = <<>> /\ NoNetwork

C5_Witness ==
  /\ Ended /\ History /\ call.messages = <<>>
  /\ NamesOpenAI /\ env["OPENAI_API_KEY"] = StrV("sk-openai")
  /\ run.outcome = "raised"

\* ------------------------------------------------------------------ C6
BackendFaulted == Ended /\ ~NoNetwork /\ call.reply.kind = "fault"
LastLog == run.log[Len(run.log)]

\* C6 (as claimed): when the backend call raises a fault, the adapter makes
\* one backend call, returns no result, and raises an error that carries
\* both the provider name and the fault's message.
C6_FaultCarriesProvider ==
  BackendFaulted
    => /\ Len(run.requests) = 1
       /\ run.outcome = "raised" /\ run.result = NoneV
       /\ run.raised.text = call.reply.exc.text
       /\ call.provider \in run.raised.names

\* what the code does on a fault, for comparison: one backend call, no
\* result, the backend's fault re-raised as it is; the provider name is only
\* in the error line the adapter logs, next to the fault.
C6_FaultReraisedAndLogged ==
  BackendFaulted
    => /\ Len(run.requests) = 1
       /\ run.outcome = "raised" /\ run.result = NoneV
       /\ run.raised = call.reply.exc
       /\ LastLog.level = "error"
       /\ LastLog.provider = call.provider
       /\ LastLog.exc = call.reply.exc

\* ------------------------------------------------------------------ C7
\* every credential lookup, client and request of the call is backend's
OnlyBackend(backend, kind, keyName) ==
  /\ \A i \in 1..Len(run.getenvs) : run.getenvs[i] = keyName
  /\ \A i \in 1..Len(run.clients) :
       run.clients[i].kind = kind /\ run.clients[i].api_key = env[keyName]
  /\ \A i \in 1..Len(run.requests) :
       run.requests[i].backend = backend /\ run.requests[i].api_key = env[keyName]

\* the call reached backend: one request, made with the key under keyName
Reached(backend, keyName) ==
  /\ Len(run.requests) = 1
  /\ Sent.backend = backend /\ Sent.api_key = env[keyName]

\* C7: under every casing of a supported provider name both entry points
\* route to that provider's backend with that provider's credential and to
\* no other; with a real key in place the request does reach that backend.
C7_CasingRoutes ==
  (Ended /\ Dispatched)
    => /\ NamesOpenAI =>
            /\ OnlyBackend("openai", "OpenAI", "OPENAI_API_KEY")
            /\ env["OPENAI_API_KEY"] = StrV("sk-openai")
                 => Reached("openai", "OPENAI_API_KEY")
       /\ NamesAnthropic =>
            /\ OnlyBackend("anthropic", "Anthropic", "ANTHROPIC_API_KEY")
            /\ env["ANTHROPIC_API_KEY"] = StrV("sk-ant")
                 => Reached("anthropic", "ANTHROPIC_API_KEY")

C7_Witness ==
  /\ Ended /\ History /\ call.provider = <<"A","N","T","H","R","O","P","I","C">>
  /\ env["OPENAI_API_KEY"] = StrV("sk-openai")
  /\ Reached("anthropic", "ANTHROPIC_API_KEY")

\* ------------------------------------------------------------------ C8
DefaultModel == IF NamesOpenAI THEN StrV("gpt-4o") ELSE StrV("claude-3-opus-20240229")

\* C8 (as claimed): in both entry points the model sent is the provider's
\* default exactly when the caller omits model, and the caller's value
\* verbatim whenever one is supplied, an empty or null one included.
C8_ModelVerbatim ==
  (Ended /\ ~NoNetwork)
    => Sent.model = (IF HasKey(call.kw, "model") THEN call.kw["model"] ELSE DefaultModel)

\* a value Python takes for false: None, "", 0, 0.0, -0.0
Falsy(v) ==
  \/ v = NoneV \/ v = StrV("") \/ v = IntV(0)
  \/ v = FloatV("0.0") \/ v = FloatV("-0.0")

\* C8 (amended): the multi-turn call sends the provider's default exactly
\* when the caller omits model and the caller's value verbatim otherwise,
\* an empty or null one included; the single-turn call sends the caller's
\* value verbatim only when it is a non-empty string (a value Python takes
\* for true), and the provider's default when model is omitted, null or
\* empty.
C8_ModelDefaulting ==
  (Ended /\ ~NoNetwork)
    => /\ History =>
            Sent.model = (IF HasKey(call.kw, "model") THEN call.kw["model"] ELSE DefaultModel)
       /\ Single =>
            Sent.model =
              (IF HasKey(call.kw, "model") /\ ~Falsy(call.kw["model"])
               THEN call.kw["model"] ELSE DefaultModel)

C8_Witness ==
  /\ Ended /\ ~NoNetwork /\ Single /\ NamesAnthropic
  /\ HasKey(call.kw, "model") /\ call.kw["model"] = StrV("")
  /\ Sent.model = StrV("claude-3-opus-20240229")

\* ------------------------------------------------------------------ C9
\* the claimed values: the caller's max_tokens when one is given, else null
\* for OpenAI and 4096 for Anthropic
C9_MaxTokensValues ==
  (Ended /\ ~NoNetwork)
    => LET given == HasKey(call.kw, "max_tokens") /\ call.kw["max_tokens"] # NoneV
       IN  /\ NamesOpenAI =>
                Sent.max_tokens = (IF given THEN call.kw["max_tokens"] ELSE NoneV)
           /\ NamesAnthropic =>
                Sent.max_tokens =
                  (IF given THEN call.kw["max_tokens"] ELSE IntV(AnthropicMaxTokens))

\* C9 (as claimed, its conclusion): in both entry points the Anthropic
\* backend is never sent a null max_tokens.
C9_AnthropicNeverNull ==
  (Ended /\ ~NoNetwork /\ NamesAnthropic) => Sent.max_tokens # NoneV

\* ------------------------------------------------------------------ C10
\* C10 (as claimed): a multi-turn call leaves the caller's message list,
\* and the role and content of every message in it, as they were passed.
C10_CallerListUnchanged ==
  (Ended /\ History) => messages = call.messages

====
